---- MODULE Spec2Model ----
(***************************************************************************)
(* Model of CGMParser.py: format detection, record splitting, per-dialect  *)
(* field extraction and content parsing, and the record model's flatten    *)
(* operation.  Text lines are TLA+ strings; the regular expressions of the *)
(* source are evaluated character by character by a small backtracking     *)
(* matcher with Python's greedy semantics.                                 *)
(***************************************************************************)
EXTENDS Integers, Sequences, FiniteSets, TLC

(***************************************************************************)
(* Characters and character classes of Python's re module (ASCII part).    *)
(***************************************************************************)
Chr(s, i) == SubSeq(s, i, i)

Digit == {"0", "1", "2", "3", "4", "5", "6", "7", "8", "9"}

Upper == {"A", "B", "C", "D", "E", "F", "G", "H", "I", "J", "K", "L", "M",
          "N", "O", "P", "Q", "R", "S", "T", "U", "V", "W", "X", "Y", "Z"}

Lower == {"a", "b", "c", "d", "e", "f", "g", "h", "i", "j", "k", "l", "m",
          "n", "o", "p", "q", "r", "s", "t", "u", "v", "w", "x", "y", "z"}

\* \w
WordCh == Upper \cup Lower \cup Digit \cup {"_"}

\* \s
SpaceCh == {" ", "\n", "\t", "\r", "\f"}

\* [\w .-]
NameCh == WordCh \cup {" ", ".", "-"}

\* [\w ()&+/.-]
KasseCh == WordCh \cup {" ", "(", ")", "&", "+", "/", ".", "-"}

(***************************************************************************)
(* A pattern is a sequence of atoms; an atom is a character class with a   *)
(* repetition range.  neg = TRUE complements the class ("." is the         *)
(* complement of {"\n"}).  max = -1 means unbounded.                       *)
(***************************************************************************)
Atom(cls, neg, min, max) == [cls |-> cls, neg |-> neg, min |-> min, max |-> max]

Star(cls) == Atom(cls, FALSE, 0, -1)

Plus(cls) == Atom(cls, FALSE, 1, -1)

Times(cls, n) == Atom(cls, FALSE, n, n)

Lit(c) == Atom({c}, FALSE, 1, 1)

Dot(n) == Atom({"\n"}, TRUE, n, n)

DotPlus == Atom({"\n"}, TRUE, 1, -1)

InAtom(c, a) == IF a.neg THEN c \notin a.cls ELSE c \in a.cls

\* number of consecutive characters of s from position i on that atom a
\* accepts, at most a.max of them
RECURSIVE RunLen(_, _, _, _)
RunLen(a, s, i, n) ==
    IF i + n > Len(s) \/ n = a.max THEN n
    ELSE IF InAtom(Chr(s, i + n), a) THEN RunLen(a, s, i, n + 1)
    ELSE n

Fail == <<>>

\* Greedy backtracking match of atoms k.. of the pattern at position i of s:
\* Fail, or the start position of every atom followed by the end position.
RECURSIVE MatchAtoms(_, _, _, _)
MatchAtoms(atoms, k, s, i) ==
    IF k > Len(atoms) THEN <<i>>
    ELSE LET a == atoms[k]
             RECURSIVE Try(_)
             Try(n) == IF n < a.min THEN Fail
                       ELSE LET rest == MatchAtoms(atoms, k + 1, s, i + n)
                            IN  IF rest # Fail THEN <<i>> \o rest
                                ELSE Try(n - 1)
         IN  Try(RunLen(a, s, i, 0))

\* re.match: the pattern anchored at the start of the string
ReMatch(atoms, s) == MatchAtoms(atoms, 1, s, 1)

\* re.search: the leftmost position at which the pattern matches
RECURSIVE SearchFrom(_, _, _)
SearchFrom(atoms, s, i) ==
    IF i > Len(s) + 1 THEN Fail
    ELSE LET m == MatchAtoms(atoms, 1, s, i)
         IN  IF m # Fail THEN m ELSE SearchFrom(atoms, s, i + 1)

ReSearch(atoms, s) == SearchFrom(atoms, s, 1)

\* the text matched by atoms a..b of a successful match m
Grp(s, m, a, b) == SubSeq(s, m[a], m[b + 1] - 1)

MatchEnd(m) == m[Len(m)]

RECURSIVE Rep(_, _)
Rep(c, n) == IF n = 0 THEN "" ELSE c \o Rep(c, n - 1)


(***************************************************************************)
(* Python list and string helpers used by the parser.                      *)
(***************************************************************************)
\* lst[n:]
DropFirst(lst, n) == IF n >= Len(lst) THEN <<>> ELSE SubSeq(lst, n + 1, Len(lst))

\* lst[:n] for n >= 0
TakeFirst(lst, n) == IF n >= Len(lst) THEN lst ELSE SubSeq(lst, 1, n)

\* lst[:-n]
DropLast(lst, n) == IF n >= Len(lst) THEN <<>> ELSE SubSeq(lst, 1, Len(lst) - n)

\* sep.join(tokens)
RECURSIVE Join(_, _)
Join(tokens, sep) ==
    IF tokens = <<>> THEN ""
    ELSE IF Len(tokens) = 1 THEN tokens[1]
    ELSE tokens[1] \o sep \o Join(DropFirst(tokens, 1), sep)

\* sep.join(s) for a str s: the characters of s are the items
RECURSIVE JoinChars(_, _)
JoinChars(s, sep) ==
    IF Len(s) <= 1 THEN s
    ELSE Chr(s, 1) \o sep \o JoinChars(SubSeq(s, 2, Len(s)), sep)

\* position of the first occurrence of sep in s at or after i, 0 if none
RECURSIVE Find(_, _, _)
Find(s, sep, i) ==
    IF i + Len(sep) - 1 > Len(s) THEN 0
    ELSE IF SubSeq(s, i, i + Len(sep) - 1) = sep THEN i
    ELSE Find(s, sep, i + 1)

\* s.split(sep=sep)
RECURSIVE Split(_, _)
Split(s, sep) ==
    LET p == Find(s, sep, 1)
    IN  IF p = 0 THEN <<s>>
        ELSE <<SubSeq(s, 1, p - 1)>> \o Split(SubSeq(s, p + Len(sep), Len(s)), sep)

\* s[1:-1]
Inner(s) == IF Len(s) <= 2 THEN "" ELSE SubSeq(s, 2, Len(s) - 1)

\* dict item assignment d[k] = v
DictSet(d, k, v) == (k :> v) @@ d

\* re.sub(r' +$', '', line): "$" matches at the end of the string and
\* before a newline that ends the string
RECURSIVE RStrip(_)
RStrip(s) ==
    IF s # "" /\ Chr(s, Len(s)) = " " THEN RStrip(SubSeq(s, 1, Len(s) - 1)) ELSE s

TrimTrailing(line) ==
    IF line # "" /\ Chr(line, Len(line)) = "\n"
    THEN RStrip(SubSeq(line, 1, Len(line) - 1)) \o "\n"
    ELSE RStrip(line)

\* re.sub(r'^\s*|\n', '', line): drop the leading whitespace and every newline
RECURSIVE DropNewlines(_)
DropNewlines(s) ==
    IF s = "" THEN ""
    ELSE IF Chr(s, 1) = "\n" THEN DropNewlines(SubSeq(s, 2, Len(s)))
    ELSE Chr(s, 1) \o DropNewlines(SubSeq(s, 2, Len(s)))

StripLeading(line) ==
    LET n == RunLen(Star(SpaceCh), line, 1, 0)
    IN  DropNewlines(SubSeq(line, n + 1, Len(line)))

(***************************************************************************)
(* datetime.strptime(...).date().strftime('%Y-%m-%d')                      *)
(***************************************************************************)
DigitVal(c) == CHOOSE n \in 0..9 : Chr("0123456789", n + 1) = c

RECURSIVE Num(_)
Num(s) == IF s = "" THEN 0
          ELSE 10 * Num(SubSeq(s, 1, Len(s) - 1)) + DigitVal(Chr(s, Len(s)))

RECURSIVE Str(_)
Str(n) == IF n < 10 THEN Chr("0123456789", n + 1)
          ELSE Str(n \div 10) \o Chr("0123456789", (n % 10) + 1)

Pad2(n) == IF n < 10 THEN "0" \o Str(n) ELSE Str(n)

IsLeap(y) == y % 4 = 0 /\ (y % 100 # 0 \/ y % 400 = 0)

DaysIn(m, y) ==
    IF m = 2 THEN (IF IsLeap(y) THEN 29 ELSE 28)
    ELSE IF m \in {4, 6, 9, 11} THEN 30 ELSE 31

\* %y: values 69-99 are mapped to 1969-1999, values 0-68 to 2000-2068
Century(yy) == IF yy <= 68 THEN 2000 + yy ELSE 1900 + yy

\* s has the shape dd?mm?y..y the callers' patterns accept; ylen is 4 for
\* '%d.%m.%Y' and 2 for '%d.%m.%y'.  The result is the '%Y-%m-%d' text, or
\* "ValueError" when strptime or date construction raises.
Strptime(s, ylen) ==
    LET d == Num(SubSeq(s, 1, 2))
        m == Num(SubSeq(s, 4, 5))
        yraw == Num(SubSeq(s, 7, 6 + ylen))
        y == IF ylen = 2 THEN Century(yraw) ELSE yraw
    IN  IF /\ Chr(s, 3) = "."
           /\ Chr(s, 6) = "."
           /\ m \in 1..12
           /\ y >= 1
           /\ d >= 1
           /\ d <= DaysIn(m, y)
        THEN Str(y) \o "-" \o Pad2(m) \o "-" \o Pad2(d)
        ELSE "ValueError"

(***************************************************************************)
(* Class constants: header banners, record delimiters, indent levels.      *)
(***************************************************************************)
GOF_BANNER == <<Rep("=", 90) \o "\n", "Eintrag" \o Rep(" ", 81) \o "\n", Rep("=", 90) \o "\n">>

GOF_HEADER == Join(GOF_BANNER, "")

\* r'={85} {6}\n'
GOF_RECORD_DELIMITER == <<Times({"="}, 85), Times({" "}, 6), Lit("\n")>>

TGS_BANNER == <<Rep("=", 96) \o "\n", "Textgruppenstatistik\n", Rep("=", 96) \o "\n">>

TGS_HEADER == Join(TGS_BANNER, "")

\* r'-{96}'
TGS_RECORD_DELIMITER == <<Times({"-"}, 96)>>

TGS_INDENT_LEVELS ==
    << <<"erfasser", 9>>, <<"schein_typ", 13>>, <<"behandler", 15>>,
       <<"fachgebiet", 19>>, <<"zeilentyp", 23>> >>

RecordDelimiter(ctx) == IF ctx = "GOF" THEN GOF_RECORD_DELIMITER ELSE TGS_RECORD_DELIMITER

(***************************************************************************)
(* The line patterns.                                                      *)
(***************************************************************************)
DatePat(ylen) == <<Times(Digit, 2), Dot(1), Times(Digit, 2), Dot(1), Times(Digit, ylen)>>

\* r'(^\d*)\s+([\w .-]+), ([\w .-]+)\s+(\d{2}.\d{2}.\d{4})'
\* groups: 1 = atom 1, 2 = atom 3, 3 = atom 6, 4 = atoms 8..12
GOF_PAT_0 ==
    <<Star(Digit), Plus(SpaceCh), Plus(NameCh), Lit(","), Lit(" "), Plus(NameCh),
      Plus(SpaceCh)>> \o DatePat(4)

\* r'([\w]+)\s+(\d)(\d{4})\s+([MFR]*)\s+(\d*)\s+(\d{2})'
\* groups: 1 = atom 1, 2 = atom 3, 3 = atom 4, 4 = atom 6, 5 = atom 8, 6 = atom 10
GOF_PAT_1 ==
    <<Plus(WordCh), Plus(SpaceCh), Times(Digit, 1), Times(Digit, 4), Plus(SpaceCh),
      Star({"M", "F", "R"}), Plus(SpaceCh), Star(Digit), Plus(SpaceCh), Times(Digit, 2)>>

\* r'^(\d{2}.\d{2}.\d{4})\s(\w+)(\s\(\w{3}\))*': the part before the repeated
\* group (groups: 1 = atoms 1..5, 2 = atom 7) and one round of the group
GOF_PAT_INFO == DatePat(4) \o <<Times(SpaceCh, 1), Plus(WordCh)>>

GOF_PAT_INFO_REC == <<Times(SpaceCh, 1), Lit("("), Times(WordCh, 3), Lit(")")>>

\* r'^Patientennr. (\d+)\s*(.*)'; groups: 1 = atom 14, 2 = atom 16
TGS_PAT_0 ==
    <<Lit("P"), Lit("a"), Lit("t"), Lit("i"), Lit("e"), Lit("n"), Lit("t"), Lit("e"),
      Lit("n"), Lit("n"), Lit("r"), Dot(1), Lit(" "), Plus(Digit), Star(SpaceCh),
      Atom({"\n"}, TRUE, 0, -1)>>

\* r'([\w .-]+),([\w .-]+);\s\*\s(\d{2}.\d{2}.\d{4}),\s([\w ()&+/.-]+),\s*([A-Z0-9]*)'
\* groups: 1 = atom 1, 2 = atom 3, 3 = atoms 8..12, 4 = atom 15, 5 = atom 18
TGS_PAT_1 ==
    <<Plus(NameCh), Lit(","), Plus(NameCh), Lit(";"), Times(SpaceCh, 1), Lit("*"),
      Times(SpaceCh, 1)>> \o DatePat(4) \o
    <<Lit(","), Times(SpaceCh, 1), Plus(KasseCh), Lit(","), Star(SpaceCh),
      Star(Upper \cup Digit)>>

\* r'^(\d{2}.\d{2}.\d{2})'
TGS_PAT_DATE == DatePat(2)

\* r'^.{v}([\w-]+)'
TGS_PAT_OTHER(v) == <<Dot(v), Plus(WordCh \cup {"-"})>>

\* r'.{28}(.+)'
TGS_PAT_TEXT == <<Dot(28), DotPlus>>

(***************************************************************************)
(* CGMParser._determine_context and the ParsingContext constructors.       *)
(***************************************************************************)
\* the class chosen by _determine_context; "None" when the function falls
\* off its end
DetermineContext(raw) ==
    LET h == Join(TakeFirst(raw, 3), "")
    IN  IF h = GOF_HEADER THEN "GOF"
        ELSE IF h = TGS_HEADER THEN "TGS"
        ELSE "None"

\* ParsingContext.__init__ (reached through ParsingContextTGS.__init__ for
\* TGS): the value of self.trimmed_input
TrimmedInput(ctx, raw) ==
    IF ctx = "GOF" THEN DropFirst(raw, 4)
    ELSE IF ctx = "TGS" THEN DropFirst(DropLast(raw, 3), 4)
    ELSE <<>>

(***************************************************************************)
(* ParsingContext.separate_records                                         *)
(***************************************************************************)
IsDelimiter(ctx, line) == ReMatch(RecordDelimiter(ctx), line) # Fail

RECURSIVE SeparateFrom(_, _, _, _, _)
SeparateFrom(ctx, lines, i, recs, current_record) ==
    IF i > Len(lines) THEN Append(recs, current_record)
    ELSE IF IsDelimiter(ctx, lines[i])
         THEN SeparateFrom(ctx, lines, i + 1, Append(recs, current_record), <<>>)
         ELSE SeparateFrom(ctx, lines, i + 1, recs,
                           Append(current_record, TrimTrailing(lines[i])))

SeparateRecords(ctx, lines) == SeparateFrom(ctx, lines, 1, <<>>, <<>>)

(***************************************************************************)
(* Values with a Python type that the code can change: a list or a str.    *)
(***************************************************************************)
PyList(v) == [kind |-> "list", val |-> v]

PyStr(v) == [kind |-> "str", val |-> v]

\* ParsingContext._write_record_content
WriteRecordContent(content_item, content_list) ==
    Append(content_list, DictSet(content_item, "text", Join(content_item.text, " ")))

\* a local variable that has not been assigned yet
Unbound == [unbound |-> TRUE]

IsUnbound(v) == "unbound" \in DOMAIN v

(***************************************************************************)
(* ParsingContextGOF                                                       *)
(***************************************************************************)
\* the two header matches of parse_records: err names the exception raised,
\* otherwise the fields hold the match groups
GOFHead(rec) ==
    IF Len(rec) < 1 THEN [err |-> "IndexError"]
    ELSE LET match_0 == ReMatch(GOF_PAT_0, rec[1])
         IN  IF match_0 = Fail THEN [err |-> "FailedGrepMatch"]
             ELSE IF Len(rec) < 2 THEN [err |-> "IndexError"]
             ELSE LET match_1 == ReSearch(GOF_PAT_1, rec[2])
                  IN  IF match_1 = Fail THEN [err |-> "FailedGrepMatch"]
                      ELSE [err |-> "",
                            pat_id |-> Grp(rec[1], match_0, 1, 1),
                            last_name |-> Grp(rec[1], match_0, 3, 3),
                            first_name |-> Grp(rec[1], match_0, 6, 6),
                            birth_date |-> Grp(rec[1], match_0, 8, 12),
                            billing_type |-> Grp(rec[2], match_1, 1, 1),
                            quarter |-> Grp(rec[2], match_1, 3, 3),
                            qyear |-> Grp(rec[2], match_1, 4, 4),
                            ins_status |-> Grp(rec[2], match_1, 6, 6),
                            vknr |-> Grp(rec[2], match_1, 8, 8),
                            ktab |-> Grp(rec[2], match_1, 10, 10)]

\* the repeated group (\s\(\w{3}\))* from position i on: the end of the
\* last round and the text of the last round ("" when there is no round,
\* where Python gives None)
RECURSIVE InfoRounds(_, _, _)
InfoRounds(line, i, last) ==
    LET r == MatchAtoms(GOF_PAT_INFO_REC, 1, line, i)
    IN  IF r = Fail THEN [end |-> i, last |-> last]
        ELSE InfoRounds(line, MatchEnd(r), Grp(line, r, 1, 4))

\* match_info of _parse_content: Fail, or groups 1..3 and the end of the match
GOFInfo(line) ==
    LET m == ReMatch(GOF_PAT_INFO, line)
    IN  IF m = Fail THEN Fail
        ELSE LET rounds == InfoRounds(line, MatchEnd(m), "")
             IN  [g1 |-> Grp(line, m, 1, 5), g2 |-> Grp(line, m, 7, 7),
                  g3 |-> rounds.last, end |-> rounds.end]

\* GOFLine that never hands the open notice to _write_record_content
GOFLine_nowrite(line, current_content, content_list, new_line) ==
    LET match_info == GOFInfo(line)
    IN  IF match_info # Fail
        THEN LET date == Strptime(match_info.g1, 4)
             IN  IF date = "ValueError"
                 THEN [err |-> "ValueError", current_content |-> current_content,
                       content_list |-> content_list]
                 ELSE [err |-> "", content_list |-> content_list,
                       current_content |->
                           [text |-> <<>>, date |-> date, type |-> match_info.g2,
                            erfasser |-> IF match_info.g3 = "" THEN ""
                                         ELSE SubSeq(match_info.g3, 3, Len(match_info.g3) - 1)]]
        ELSE IF IsUnbound(current_content)
             THEN [err |-> "UnboundLocalError", current_content |-> current_content,
                   content_list |-> content_list]
             ELSE [err |-> "", content_list |-> content_list,
                   current_content |->
                       DictSet(current_content, "text",
                               Append(current_content.text, StripLeading(line)))]

\* one round of the loop of _parse_content
GOFLine(line, current_content, content_list, new_line) ==
    LET match_info == GOFInfo(line)
    IN  IF match_info # Fail
        THEN LET date == Strptime(match_info.g1, 4)
                 written == IF new_line THEN content_list
                            ELSE WriteRecordContent(current_content, content_list)
             IN  IF date = "ValueError"
                 THEN [err |-> "ValueError", current_content |-> current_content,
                       content_list |-> written]
                 ELSE [err |-> "", content_list |-> written,
                       current_content |->
                           [text |-> <<>>, date |-> date, type |-> match_info.g2,
                            erfasser |-> IF match_info.g3 = "" THEN ""
                                         ELSE SubSeq(match_info.g3, 3, Len(match_info.g3) - 1)]]
        ELSE IF IsUnbound(current_content)
             THEN [err |-> "UnboundLocalError", current_content |-> current_content,
                   content_list |-> content_list]
             ELSE [err |-> "", content_list |-> content_list,
                   current_content |->
                       DictSet(current_content, "text",
                               Append(current_content.text, StripLeading(line)))]

\* the CGMPatientGOF built at the end of one round of parse_records
GOFPatient(h, content) ==
    [pat_id |-> h.pat_id, first_name |-> h.first_name, last_name |-> h.last_name,
     birth_date |-> Strptime(h.birth_date, 4), billing_type |-> h.billing_type,
     quarter |-> h.quarter, qyear |-> h.qyear, ins_status |-> h.ins_status,
     vknr |-> h.vknr, ktab |-> h.ktab, content |-> PyList(content)]

(***************************************************************************)
(* ParsingContextTGS                                                       *)
(***************************************************************************)
TGSHead(rec) ==
    IF Len(rec) < 1 THEN [err |-> "IndexError"]
    ELSE LET match_0 == ReMatch(TGS_PAT_0, rec[1])
         IN  IF match_0 = Fail THEN [err |-> "FailedGrepMatch"]
             ELSE IF Len(rec) < 2 THEN [err |-> "IndexError"]
             ELSE LET match_1 == ReSearch(TGS_PAT_1, rec[2])
                  IN  IF match_1 = Fail THEN [err |-> "FailedGrepMatch"]
                      ELSE [err |-> "",
                            pat_id |-> Grp(rec[1], match_0, 14, 14),
                            groups |-> Grp(rec[1], match_0, 16, 16),
                            last_name |-> Grp(rec[2], match_1, 1, 1),
                            first_name |-> Grp(rec[2], match_1, 3, 3),
                            birth_date |-> Grp(rec[2], match_1, 8, 12),
                            kasse |-> Grp(rec[2], match_1, 15, 15),
                            member_id |-> Grp(rec[2], match_1, 18, 18)]

\* TGSLevel with a fresh dict in place of the copy when a note is closed
TGSLevel_fresh(st, lvl, line) ==
    IF st.err # "" THEN st
    ELSE LET match_date == ReMatch(TGS_PAT_DATE, line)
             match_other == ReMatch(TGS_PAT_OTHER(lvl[2]), line)
             close == ~st.new_line /\ (match_date # Fail \/ match_other # Fail)
             list1 == IF close THEN WriteRecordContent(st.current_content, st.content_list)
                      ELSE st.content_list
             cc1 == IF close THEN [text |-> <<>>] ELSE st.current_content
             date == IF match_date # Fail THEN Strptime(Grp(line, match_date, 1, 5), 2) ELSE ""
             cc2 == IF match_date # Fail /\ date # "ValueError"
                    THEN DictSet(cc1, "date", date) ELSE cc1
             cc3 == IF match_other # Fail
                    THEN DictSet(cc2, lvl[1], Grp(line, match_other, 2, 2)) ELSE cc2
         IN  IF date = "ValueError"
             THEN [err |-> "ValueError", current_content |-> cc1, content_list |-> list1,
                   new_line |-> st.new_line \/ close]
             ELSE [err |-> "", current_content |-> cc3, content_list |-> list1,
                   new_line |-> st.new_line \/ close]

\* one round of the inner loop of _parse_content, for the indent level lvl
TGSLevel(st, lvl, line) ==
    IF st.err # "" THEN st
    ELSE LET match_date == ReMatch(TGS_PAT_DATE, line)
             match_other == ReMatch(TGS_PAT_OTHER(lvl[2]), line)
             close == ~st.new_line /\ (match_date # Fail \/ match_other # Fail)
             list1 == IF close THEN WriteRecordContent(st.current_content, st.content_list)
                      ELSE st.content_list
             cc1 == IF close THEN DictSet(st.current_content, "text", <<>>)
                    ELSE st.current_content
             date == IF match_date # Fail THEN Strptime(Grp(line, match_date, 1, 5), 2) ELSE ""
             cc2 == IF match_date # Fail /\ date # "ValueError"
                    THEN DictSet(cc1, "date", date) ELSE cc1
             cc3 == IF match_other # Fail
                    THEN DictSet(cc2, lvl[1], Grp(line, match_other, 2, 2)) ELSE cc2
         IN  IF date = "ValueError"
             THEN [err |-> "ValueError", current_content |-> cc1, content_list |-> list1,
                   new_line |-> st.new_line \/ close]
             ELSE [err |-> "", current_content |-> cc3, content_list |-> list1,
                   new_line |-> st.new_line \/ close]

RECURSIVE TGSLevels(_, _, _)
TGSLevels(st, k, line) ==
    IF k > Len(TGS_INDENT_LEVELS) THEN st
    ELSE TGSLevels(TGSLevel(st, TGS_INDENT_LEVELS[k], line), k + 1, line)

\* TGSLine that goes through the indent levels as if new_line were still True
TGSLine_noclose(line, current_content, content_list, new_line) ==
    LET st == TGSLevels([err |-> "", current_content |-> current_content,
                         content_list |-> content_list, new_line |-> TRUE], 1, line)
        match_text == ReSearch(TGS_PAT_TEXT, line)
    IN  IF st.err # "" \/ match_text = Fail THEN st
        ELSE [st EXCEPT !.current_content =
                  DictSet(st.current_content, "text",
                          Append(st.current_content.text, Grp(line, match_text, 2, 2)))]

\* one round of the outer loop of _parse_content
TGSLine(line, current_content, content_list, new_line) ==
    LET st == TGSLevels([err |-> "", current_content |-> current_content,
                         content_list |-> content_list, new_line |-> new_line], 1, line)
        match_text == ReSearch(TGS_PAT_TEXT, line)
    IN  IF st.err # "" \/ match_text = Fail THEN st
        ELSE [st EXCEPT !.current_content =
                  DictSet(st.current_content, "text",
                          Append(st.current_content.text, Grp(line, match_text, 2, 2)))]

\* groups=match_0[2][1:-1].split(sep=', ')
TGSGroups(g) == Split(Inner(g), ", ")

\* the CGMPatientTGS built at the end of one round of parse_records
TGSPatient(h, content) ==
    [pat_id |-> h.pat_id, first_name |-> h.first_name, last_name |-> h.last_name,
     birth_date |-> Strptime(h.birth_date, 4), kasse |-> h.kasse,
     member_id |-> h.member_id, groups |-> PyList(TGSGroups(h.groups)),
     content |-> PyList(content)]

(***************************************************************************)
(* The record model: repr_as_dict.  The result names the exception raised  *)
(* ("" if none), the record object as the call leaves it and the returned  *)
(* dict.                                                                   *)
(***************************************************************************)
\* '\t'.join of the listed fields of every entry, the entries '\n'.joined
RECURSIVE RenderEntries(_, _)
RenderEntries(entries, keys) ==
    IF entries = <<>> THEN <<>>
    ELSE <<Join([i \in DOMAIN keys |-> entries[1][keys[i]]], "\t")>>
         \o RenderEntries(DropFirst(entries, 1), keys)

GOF_NOTICE_KEYS == <<"date", "type", "erfasser", "text">>

TGS_NOTE_KEYS ==
    <<"date", "erfasser", "schein_typ", "behandler", "fachgebiet", "zeilentyp", "text">>

\* CGMPatientGOF.repr_as_dict works on a copy of vars(self)
GOFReprAsDict(self) ==
    [err |-> "", self |-> self,
     out |-> [self EXCEPT !.content =
                  PyStr(Join(RenderEntries(self.content.val, GOF_NOTICE_KEYS), "\n"))]]

\* TGSRenderGroups with ',' in place of ', ' as the separator
TGSRenderGroups_comma(groups) ==
    IF Len(groups.val) = 0 THEN PyStr("")
    ELSE IF Len(groups.val) = 1
         THEN PyStr(IF groups.kind = "list" THEN groups.val[1] ELSE groups.val)
         ELSE PyStr(IF groups.kind = "list" THEN Join(groups.val, ",")
                    ELSE JoinChars(groups.val, ","))

\* lines 111-116: the new value of inst_vars['groups']
TGSRenderGroups(groups) ==
    IF Len(groups.val) = 0 THEN PyStr("")
    ELSE IF Len(groups.val) = 1
         THEN PyStr(IF groups.kind = "list" THEN groups.val[1] ELSE groups.val)
         ELSE PyStr(IF groups.kind = "list" THEN Join(groups.val, ", ")
                    ELSE JoinChars(groups.val, ", "))

\* CGMPatientTGS.repr_as_dict works on vars(self) itself
TGSReprAsDict(self) ==
    LET self1 == [self EXCEPT !.groups = TGSRenderGroups(self.groups)]
        content == self.content
    IN  IF content.kind = "str"
        THEN IF content.val = ""
             THEN [err |-> "", self |-> self1, out |-> self1]
             ELSE [err |-> "TypeError", self |-> self1, out |-> self1]
        ELSE IF \E n \in DOMAIN content.val :
                    \E k \in DOMAIN TGS_NOTE_KEYS : TGS_NOTE_KEYS[k] \notin DOMAIN content.val[n]
             THEN [err |-> "KeyError", self |-> self1, out |-> self1]
             ELSE LET self2 == [self1 EXCEPT !.content =
                                    PyStr(Join(RenderEntries(content.val, TGS_NOTE_KEYS), "\n"))]
                  IN  [err |-> "", self |-> self2, out |-> self2]

(***************************************************************************)
(* Input lines.  A report is the banner, the line after the banner, record *)
(* blocks separated by delimiter lines and, for TGS, a three-line footer.  *)
(***************************************************************************)
MaxRecs == 2

MaxContent == 2

MaxFlatten == 2

MaxGroups == 2

SeqsUpTo(S, n) == UNION {[1..k -> S] : k \in 0..n}

GOFContentPool ==
    {"01.02.2023 Befund (xyz) erste Zeile", "zweite Zeile", "03.02.2023 Labor"}

GOFLine1 == "12345 Mustermann, Erika   01.01.1980"

GOFLine2 == "AB 12000 M 00123 00"

\* blocks for the first record of a report
GOFBlocks ==
    {<<GOFLine1, GOFLine2>> \o c : c \in SeqsUpTo(GOFContentPool, MaxContent)}
    \cup {<<GOFLine1, "AB12000 M 00123 00", "01.02.2023 Befund (xyz) erste Zeile", "zweite Zeile">>,
          <<"Mustermann Erika 01.01.1980", GOFLine2, "03.02.2023 Labor">>,
          <<GOFLine1, "AB 12000", "03.02.2023 Labor">>,
          <<"777 Meier, Uwe 31.02.1980", GOFLine2, "03.02.2023 Labor">>,
          <<GOFLine1, GOFLine2, "31.02.2023 Befund (xyz) erste Zeile">>,
          <<GOFLine1, GOFLine2, "03.02.2023 Labor", "01.13.2023 Labor">>}

\* blocks for the records after the first
GOFMoreBlocks ==
    {<<"777 Meier, Uwe 02.03.1975", "XY 42019  4711 01", "03.02.2023 Labor">>,
     <<"Meier Uwe", "XY 42019  4711 01", "03.02.2023 Labor">>,
     <<"777 Meier, Uwe 02.03.1975">>,
     <<>>}

TGSContentPool ==
    {"01.02.23 abc M dr1 all Anam Hallo Welt",
     Rep(" ", 28) \o "weiter",
     Rep(" ", 9) \o "xyz" \o Rep(" ", 16) \o "neu",
     "05.02.23" \o Rep(" ", 7) \o "dr2" \o Rep(" ", 10) \o "spaeter"}

TGSLine1 == "Patientennr. 123 (A, B)"

TGSLine2 == "Muster,Erika; * 01.01.1980, AOK Bayern, A123"

TGSBlocks ==
    {<<TGSLine1, TGSLine2>> \o c : c \in SeqsUpTo(TGSContentPool, MaxContent)}
    \cup {<<"Patientennr. 9", TGSLine2, "01.02.23 abc M dr1 all Anam Hallo Welt">>,
          <<"Patient 9", TGSLine2>>,
          <<TGSLine1, "Muster Erika 01.01.1980">>,
          <<TGSLine1, "Muster,Erika; * 31.02.1980, AOK Bayern, A123">>,
          <<TGSLine1, TGSLine2, "31.02.23 abc M dr1 all Anam Hallo Welt">>,
          <<TGSLine1, TGSLine2, "01.02.23 abc M dr1 all Anam Hallo Welt",
            "01.13.23" \o Rep(" ", 20) \o "spaeter">>}

TGSMoreBlocks ==
    {<<"Patientennr. 7 (C)", "Meier,Uwe; * 02.03.1975, BKK (West), ", "01.02.23 abc M dr1 all Anam Hallo Welt">>,
     <<"Patient 7", "Meier,Uwe; * 02.03.1975, BKK (West), ">>,
     <<"Patientennr. 7 (C)">>,
     <<>>}

TGS_FOOTER == <<"", "Anzahl Patienten", "">>

GOFDelimiterLine == Rep("=", 85) \o Rep(" ", 6)

TGSDelimiterLine == Rep("-", 96)

\* the lines as file.readlines() gives them (nl) or with the line
\* terminator removed
Terminated(lines, nl) == [i \in DOMAIN lines |-> IF nl THEN lines[i] \o "\n" ELSE lines[i]]

StripNewline(line) ==
    IF line # "" /\ Chr(line, Len(line)) = "\n" THEN SubSeq(line, 1, Len(line) - 1) ELSE line

StripNewlines(lines) == [i \in DOMAIN lines |-> StripNewline(lines[i])]

RECURSIVE Body(_, _, _, _)
Body(blocks, delim, frameNl, recNl) ==
    IF blocks = <<>> THEN <<>>
    ELSE Terminated(blocks[1], recNl)
         \o (IF Len(blocks) = 1 THEN <<>>
             ELSE Terminated(<<delim>>, frameNl) \o Body(DropFirst(blocks, 1), delim, frameNl, recNl))

BlockSeqs(first, more) ==
    {<<>>} \cup {<<b>> \o m : b \in first, m \in SeqsUpTo(more, MaxRecs - 1)}

Report(banner, lead, blocks, delim, footer, frameNl, recNl) ==
    (IF frameNl THEN banner ELSE StripNewlines(banner))
    \o Terminated(lead, frameNl)
    \o Body(blocks, delim, frameNl, recNl)
    \o Terminated(footer, frameNl)

GOFInputs ==
    {Report(GOF_BANNER, lead, blocks, GOFDelimiterLine, <<>>, frameNl, recNl) :
        lead \in {<<GOFDelimiterLine>>, <<"Protokoll">>},
        blocks \in BlockSeqs(GOFBlocks, GOFMoreBlocks),
        frameNl \in BOOLEAN, recNl \in BOOLEAN}

TGSInputs ==
    {Report(TGS_BANNER, lead, blocks, TGSDelimiterLine, TGS_FOOTER, frameNl, recNl) :
        lead \in {<<TGSDelimiterLine>>, <<"Protokoll">>},
        blocks \in BlockSeqs(TGSBlocks, TGSMoreBlocks),
        frameNl \in BOOLEAN, recNl \in BOOLEAN}

OtherInputs ==
    {<<>>, <<"Protokoll\n">>,
     <<Rep("=", 90) \o "\n", "Eintrag\n", Rep("=", 90) \o "\n", GOFDelimiterLine \o "\n",
       GOFLine1 \o "\n", GOFLine2 \o "\n", "03.02.2023 Labor\n">>}

Inputs == GOFInputs \cup TGSInputs \cup OtherInputs

(***************************************************************************)
(* State: the caller's list, the CGMParser object under construction and   *)
(* the local variables of parse_records and _parse_content.               *)
(***************************************************************************)
VARIABLES
    raw_input,        \* the list handed to CGMParser(...)
    pc,               \* "start", "separate", "records", "content", "done", "failed"
    context,          \* self.context: "GOF", "TGS" or "None"
    trimmed_input,    \* self.context.trimmed_input
    records,          \* self.records
    rec_i,            \* position of the loop of parse_records (1-based)
    records_new,      \* records_new of parse_records
    head,             \* match_0 and match_1 of the current record
    line_i,           \* position of the loop of _parse_content (1-based)
    content_list,     \* content_list of _parse_content
    current_content,  \* current_content of _parse_content
    new_line,         \* new_line of _parse_content
    parsed_records,   \* self.parsed_records; <<>> while the attribute is not set
    err,              \* the exception that ended the constructor, "" if none
    run,              \* 1 for the first CGMParser(raw_input), 2 for the second
    prev_parsed,      \* parsed_records of the first object
    prev_err,         \* the exception that ended the first constructor
    nflat,            \* number of repr_as_dict calls so far
    flat_out,         \* the dict the last repr_as_dict call returned
    flat_err          \* the exception the last repr_as_dict call raised, "" if none

vars == <<raw_input, pc, context, trimmed_input, records, rec_i, records_new, head,
          line_i, content_list, current_content, new_line, parsed_records, err,
          run, prev_parsed, prev_err, nflat, flat_out, flat_err>>

\* the fields of the CGMParser object and the locals of its constructor
parser == <<pc, context, trimmed_input, records, rec_i, records_new, head, line_i,
            content_list, current_content, new_line, parsed_records, err>>

\* what the constructor never touches
outside == <<run, prev_parsed, prev_err, nflat, flat_out, flat_err>>

Fresh ==
    /\ pc = "start"
    /\ context = "None"
    /\ trimmed_input = <<>>
    /\ records = <<>>
    /\ rec_i = 0
    /\ records_new = <<>>
    /\ head = [err |-> ""]
    /\ line_i = 0
    /\ content_list = <<>>
    /\ current_content = Unbound
    /\ new_line = TRUE
    /\ parsed_records = <<>>
    /\ err = ""

Init ==
    /\ raw_input \in Inputs
    /\ Fresh
    /\ run = 1
    /\ prev_parsed = <<>>
    /\ prev_err = ""
    /\ nflat = 0
    /\ flat_out = [err |-> ""]
    /\ flat_err = ""

\* the exception name propagates out of CGMParser.__init__
Raise(e) ==
    /\ pc' = "failed"
    /\ err' = e

\* rec[2:] of the current record
Content == DropFirst(records[rec_i], 2)

\* Construct with the context constructor trimming the caller's list in
\* place instead of slicing it
Construct_inplace ==
    /\ pc = "start"
    /\ context' = DetermineContext(raw_input)
    /\ trimmed_input' = TrimmedInput(DetermineContext(raw_input), raw_input)
    /\ raw_input' = IF DetermineContext(raw_input) = "None" THEN raw_input
                    ELSE TrimmedInput(DetermineContext(raw_input), raw_input)
    /\ pc' = "separate"
    /\ UNCHANGED <<records, rec_i, records_new, head, line_i, content_list,
                   current_content, new_line, parsed_records, err>>
    /\ UNCHANGED outside

\* CGMParser.__init__, line 403
Construct ==
    /\ pc = "start"
    /\ context' = DetermineContext(raw_input)
    /\ trimmed_input' = TrimmedInput(DetermineContext(raw_input), raw_input)
    /\ pc' = "separate"
    /\ UNCHANGED <<raw_input, records, rec_i, records_new, head, line_i, content_list,
                   current_content, new_line, parsed_records, err>>
    /\ UNCHANGED outside

\* CGMParser.__init__, line 404
Separate ==
    /\ pc = "separate"
    /\ IF context = "None"
       THEN /\ Raise("AttributeError")
            /\ UNCHANGED <<records, rec_i>>
       ELSE /\ records' = SeparateRecords(context, trimmed_input)
            /\ rec_i' = 1
            /\ pc' = "records"
            /\ err' = err
    /\ UNCHANGED <<raw_input, context, trimmed_input, records_new, head, line_i,
                   content_list, current_content, new_line, parsed_records>>
    /\ UNCHANGED outside

\* the two header lines of the next record are matched (h), up to the call
\* of _parse_content, whose current_content starts as cc
HeadStep(h, cc) ==
    /\ pc = "records"
    /\ rec_i <= Len(records)
    /\ IF h.err # ""
       THEN /\ Raise(h.err)
            /\ UNCHANGED <<head, line_i, content_list, current_content, new_line>>
       ELSE /\ head' = h
            /\ line_i' = 1
            /\ content_list' = <<>>
            /\ current_content' = cc
            /\ new_line' = TRUE
            /\ pc' = "content"
            /\ err' = err
    /\ UNCHANGED <<raw_input, context, trimmed_input, records, rec_i, records_new,
                   parsed_records>>
    /\ UNCHANGED outside

\* ParsingContextGOF.parse_records, lines 209-228
GOFParseHead ==
    /\ context = "GOF"
    /\ rec_i <= Len(records)
    /\ HeadStep(GOFHead(records[rec_i]), Unbound)

\* ParsingContextTGS.parse_records, lines 316-334
TGSParseHead ==
    /\ context = "TGS"
    /\ rec_i <= Len(records)
    /\ HeadStep(TGSHead(records[rec_i]), [text |-> <<>>])

\* one content line has gone through the loop body of _parse_content (r)
LineStep(r) ==
    /\ content_list' = r.content_list
    /\ current_content' = r.current_content
    /\ IF r.err # ""
       THEN /\ Raise(r.err)
            /\ UNCHANGED <<line_i, new_line>>
       ELSE /\ line_i' = line_i + 1
            /\ new_line' = FALSE
            /\ UNCHANGED <<pc, err>>
    /\ UNCHANGED <<raw_input, context, trimmed_input, records, rec_i, records_new, head,
                   parsed_records>>
    /\ UNCHANGED outside

\* ParsingContextGOF._parse_content, lines 250-270
GOFContentLine ==
    /\ pc = "content"
    /\ context = "GOF"
    /\ line_i <= Len(Content)
    /\ LineStep(GOFLine(Content[line_i], current_content, content_list, new_line))

\* ParsingContextTGS._parse_content, lines 354-375
TGSContentLine ==
    /\ pc = "content"
    /\ context = "TGS"
    /\ line_i <= Len(Content)
    /\ LineStep(TGSLine(Content[line_i], current_content, content_list, new_line))

\* the record built from the content list is appended to records_new, unless
\* its birth date raised
AppendPatient(content, patient) ==
    /\ content_list' = content
    /\ IF patient.birth_date = "ValueError"
       THEN /\ Raise("ValueError")
            /\ UNCHANGED <<records_new, rec_i>>
       ELSE /\ records_new' = Append(records_new, patient)
            /\ rec_i' = rec_i + 1
            /\ pc' = "records"
            /\ err' = err
    /\ UNCHANGED <<raw_input, context, trimmed_input, records, head, line_i,
                   current_content, new_line, parsed_records>>
    /\ UNCHANGED outside

\* ParsingContextGOF._parse_content, lines 272-273, and parse_records,
\* lines 230-244
GOFContentEnd ==
    /\ pc = "content"
    /\ context = "GOF"
    /\ line_i > Len(Content)
    /\ IF IsUnbound(current_content)
       THEN /\ Raise("UnboundLocalError")
            /\ UNCHANGED <<raw_input, context, trimmed_input, records, rec_i, records_new,
                           head, line_i, content_list, current_content, new_line,
                           parsed_records>>
            /\ UNCHANGED outside
       ELSE AppendPatient(WriteRecordContent(current_content, content_list),
                          GOFPatient(head, WriteRecordContent(current_content, content_list)))

\* ParsingContextTGS._parse_content, lines 377-378, and parse_records,
\* lines 336-347
TGSContentEnd ==
    /\ pc = "content"
    /\ context = "TGS"
    /\ line_i > Len(Content)
    /\ AppendPatient(WriteRecordContent(current_content, content_list),
                     TGSPatient(head, WriteRecordContent(current_content, content_list)))

\* parse_records returns; CGMParser.__init__, line 405
ParseReturn ==
    /\ pc = "records"
    /\ rec_i > Len(records)
    /\ parsed_records' = records_new
    /\ pc' = "done"
    /\ UNCHANGED <<raw_input, context, trimmed_input, records, rec_i, records_new, head,
                   line_i, content_list, current_content, new_line, err>>
    /\ UNCHANGED outside

\* a second CGMParser(raw_input) on the same list, right after the first
\* constructor returned or raised
Reconstruct ==
    /\ pc \in {"done", "failed"}
    /\ run = 1
    /\ nflat = 0
    /\ run' = 2
    /\ prev_parsed' = parsed_records
    /\ prev_err' = err
    /\ pc' = "start"
    /\ context' = "None"
    /\ trimmed_input' = <<>>
    /\ records' = <<>>
    /\ rec_i' = 0
    /\ records_new' = <<>>
    /\ head' = [err |-> ""]
    /\ line_i' = 0
    /\ content_list' = <<>>
    /\ current_content' = Unbound
    /\ new_line' = TRUE
    /\ parsed_records' = <<>>
    /\ err' = ""
    /\ UNCHANGED <<raw_input, nflat, flat_out, flat_err>>

\* rec.repr_as_dict() on one of the parsed records (as export_csv and
\* repr_as_list call it)
ReprAsDict ==
    /\ pc = "done"
    /\ nflat < MaxFlatten
    /\ \E i \in DOMAIN parsed_records :
          LET r == IF context = "GOF" THEN GOFReprAsDict(parsed_records[i])
                   ELSE TGSReprAsDict(parsed_records[i])
          IN  /\ parsed_records' = [parsed_records EXCEPT ![i] = r.self]
              /\ flat_out' = IF r.err = "" THEN r.out ELSE flat_out
              /\ flat_err' = r.err
    /\ nflat' = nflat + 1
    /\ UNCHANGED <<raw_input, pc, context, trimmed_input, records, rec_i, records_new,
                   head, line_i, content_list, current_content, new_line, err,
                   run, prev_parsed, prev_err>>

Next ==
    \/ Construct
    \/ Separate
    \/ GOFParseHead
    \/ GOFContentLine
    \/ GOFContentEnd
    \/ TGSParseHead
    \/ TGSContentLine
    \/ TGSContentEnd
    \/ ParseReturn
    \/ Reconstruct
    \/ ReprAsDict

Spec == Init /\ [][Next]_vars

(***************************************************************************)
(* repr_as_dict on ChartRecords built directly with the dataclass          *)
(* constructor CGMPatientTGS(...), so that groups can be any list.         *)
(***************************************************************************)
FullNote ==
    [date |-> "2023-02-01", erfasser |-> "abc", schein_typ |-> "M", behandler |-> "dr1",
     fachgebiet |-> "all", zeilentyp |-> "Anam", text |-> "Hallo Welt"]

BuiltPatients ==
    {[pat_id |-> "123", first_name |-> "Erika", last_name |-> "Muster",
      birth_date |-> "1980-01-01", kasse |-> "AOK Bayern", member_id |-> "A123",
      groups |-> PyList(g), content |-> PyList(c)] :
        g \in SeqsUpTo({"A", "B"}, MaxGroups),
        c \in {<<FullNote>>, <<FullNote, [text |-> "weiter"]>>}}

\* prev_parsed keeps the records as they were built
InitFlatten ==
    /\ raw_input = <<>>
    /\ pc = "done"
    /\ context = "TGS"
    /\ trimmed_input = <<>>
    /\ records = <<>>
    /\ rec_i = 0
    /\ records_new = <<>>
    /\ head = [err |-> ""]
    /\ line_i = 0
    /\ content_list = <<>>
    /\ current_content = Unbound
    /\ new_line = TRUE
    /\ parsed_records \in UNION {[1..n -> BuiltPatients] : n \in 1..MaxRecs}
    /\ prev_parsed = parsed_records
    /\ err = ""
    /\ run = 1
    /\ prev_err = ""
    /\ nflat = 0
    /\ flat_out = [err |-> ""]
    /\ flat_err = ""

NextFlatten == ReprAsDict

SpecFlatten == InitFlatten /\ [][NextFlatten]_vars

(***************************************************************************)
(* Properties.                                                             *)
(***************************************************************************)
Finished == pc \in {"done", "failed"}

\* C1: when the first three lines match neither banner, the constructor
\* fails with UnrecognizedFormat, before any record is split off.
C1_UnrecognizedFormatRaised ==
    (Finished /\ DetermineContext(raw_input) = "None")
        => (pc = "failed" /\ err = "UnrecognizedFormat" /\ records = <<>>)

DelimiterCount(ctx, lines) ==
    Cardinality({i \in DOMAIN lines : IsDelimiter(ctx, lines[i])})

\* C2: a BillingError input that parses successfully yields as many records
\* as there are delimiter lines after the three header lines.
C2_RecordCountIsDelimiterCount ==
    (pc = "done" /\ context = "GOF")
        => Len(parsed_records) = DelimiterCount("GOF", DropFirst(raw_input, 3))

\* header line 1 or header line 2 of the block is there and fails its pattern
HeadFails(ctx, rec) ==
    \/ Len(rec) >= 1 /\ ReMatch(IF ctx = "GOF" THEN GOF_PAT_0 ELSE TGS_PAT_0, rec[1]) = Fail
    \/ Len(rec) >= 2 /\ ReSearch(IF ctx = "GOF" THEN GOF_PAT_1 ELSE TGS_PAT_1, rec[2]) = Fail

\* C3: when a header line of some record block fails its pattern, the parse
\* ends with FailedGrepMatch and no parsed record sequence is available.
C3_HeaderMismatchAbortsWithFailedGrepMatch ==
    (Finished /\ context # "None" /\ \E i \in DOMAIN records : HeadFails(context, records[i]))
        => (pc = "failed" /\ err = "FailedGrepMatch" /\ parsed_records = <<>>)

\* what a notice-start line carries after date, type and recorder code
StartLineRest(line) == StripLeading(SubSeq(line, GOFInfo(line).end, Len(line)))

\* the text of every notice of a content block as C4 describes it: the
\* stripped content of all its lines, the start line included
RECURSIVE NoticeTokens(_, _, _)
NoticeTokens(content, i, acc) ==
    IF i > Len(content) THEN acc
    ELSE IF GOFInfo(content[i]) # Fail
         THEN NoticeTokens(content, i + 1,
                           Append(acc, IF StartLineRest(content[i]) = "" THEN <<>>
                                       ELSE <<StartLineRest(content[i])>>))
         ELSE NoticeTokens(content, i + 1,
                           [acc EXCEPT ![Len(acc)] = Append(@, StripLeading(content[i]))])

AllLinesTexts(content) ==
    LET toks == NoticeTokens(content, 1, <<>>)
    IN  [k \in DOMAIN toks |-> Join(toks[k], " ")]

\* C4: the text of every Notice is the single-space join of the stripped
\* content of all lines of the notice, the notice-start line included.
C4_NoticeTextHoldsAllLines ==
    (pc = "done" /\ context = "GOF")
        => \A i \in DOMAIN parsed_records :
              [k \in DOMAIN parsed_records[i].content.val |->
                    parsed_records[i].content.val[k].text]
                = AllLinesTexts(DropFirst(records[i], 2))

TGSAttributes == {"date", "erfasser", "schein_typ", "behandler", "fachgebiet", "zeilentyp"}

\* the attribute is matched on the line
Rematched(a, line) ==
    IF a = "date" THEN ReMatch(TGS_PAT_DATE, line) # Fail
    ELSE \E k \in DOMAIN TGS_INDENT_LEVELS :
            /\ TGS_INDENT_LEVELS[k][1] = a
            /\ ReMatch(TGS_PAT_OTHER(TGS_INDENT_LEVELS[k][2]), line) # Fail

\* the content lines after the first on which some attribute is matched
RECURSIVE Openers(_, _)
Openers(content, i) ==
    IF i > Len(content) THEN <<>>
    ELSE (IF \E a \in TGSAttributes : Rematched(a, content[i]) THEN <<content[i]>> ELSE <<>>)
         \o Openers(content, i + 1)

SameAttribute(a, n1, n2) ==
    /\ (a \in DOMAIN n1) <=> (a \in DOMAIN n2)
    /\ a \in DOMAIN n1 => n1[a] = n2[a]

\* C5: in every ChartStatistics record, each attribute of note k > 1 that is
\* not matched on the line that opened note k has the value it has in note
\* k-1 (absent if absent there), and the text holds nothing of note k-1.
C5_StickyAttributes ==
    (context = "TGS" /\ nflat = 0)
        => \A i \in DOMAIN records_new :
              LET notes == records_new[i].content.val
                  opened == Openers(DropFirst(records[i], 2), 2)
              IN  \A k \in 2..Len(notes) :
                     /\ k - 1 <= Len(opened)
                     /\ \A a \in TGSAttributes :
                           ~Rematched(a, opened[k - 1]) => SameAttribute(a, notes[k - 1], notes[k])

C5_Witness ==
    /\ pc = "done"
    /\ context = "TGS"
    /\ nflat = 0
    /\ \E i \in DOMAIN parsed_records :
          LET notes == parsed_records[i].content.val
              opened == Openers(DropFirst(records[i], 2), 2)
          IN  /\ Len(notes) >= 2
              /\ ~Rematched("behandler", opened[1])
              /\ Rematched("erfasser", opened[1])
              /\ "behandler" \in DOMAIN notes[1]
              /\ notes[2].behandler = notes[1].behandler
              /\ notes[2].erfasser # notes[1].erfasser

ValidHead(ctx, rec) ==
    /\ Len(rec) >= 2
    /\ ~HeadFails(ctx, rec)
    /\ Strptime((IF ctx = "GOF" THEN GOFHead(rec) ELSE TGSHead(rec)).birth_date, 4) # "ValueError"

\* C6: a record block of two valid header lines and no content line parses
\* successfully, to a record with exactly one entry, whose text is "".
C6_EmptyContentYieldsOneEmptyEntry ==
    (context # "None" /\ nflat = 0)
        => \A i \in DOMAIN records :
              (Len(records[i]) = 2 /\ ValidHead(context, records[i]))
                  => /\ (i = rec_i => pc # "failed")
                     /\ (i < rec_i =>
                            /\ Len(records_new[i].content.val) = 1
                            /\ records_new[i].content.val[1].text = "")

ExampleBlock ==
    <<"12345 Mustermann, Erika   01.01.1980", "AB12000 M 00123 00",
      "01.02.2023 Befund (xyz) erste Zeile", "zweite Zeile">>

ExampleRecord ==
    [pat_id |-> "12345", last_name |-> "Mustermann", first_name |-> "Erika",
     birth_date |-> "1980-01-01", billing_type |-> "AB", quarter |-> "1",
     qyear |-> "2000", ins_status |-> "M", vknr |-> "00123", ktab |-> "00",
     content |-> PyList(<<[date |-> "2023-02-01", type |-> "Befund", erfasser |-> "xyz",
                           text |-> "erste Zeile zweite Zeile"]>>)]

\* C8: the example block of the BillingError dialect parses without error to
\* exactly the one BillingRecord the example lists.
C8_ExampleParses ==
    (Finished /\ context = "GOF" /\ records = <<ExampleBlock>>)
        => (pc = "done" /\ parsed_records = <<ExampleRecord>>)

\* the blocks with the line terminators removed
BlocksStripped(recs) == [i \in DOMAIN recs |-> StripNewlines(recs[i])]

\* C9: the detected dialect and the partition into raw record blocks are the
\* same for the input and for the input with its line terminators removed.
C9_NewlineTolerant ==
    pc \notin {"start", "separate"}
        => LET bare == StripNewlines(raw_input)
               ctx == DetermineContext(bare)
           IN  /\ ctx = context
               /\ ctx # "None" =>
                     BlocksStripped(records)
                        = BlocksStripped(SeparateRecords(ctx, TrimmedInput(ctx, bare)))

\* C10: a repr_as_dict call leaves every field of every parsed record as it
\* was; groups and content stay lists.
C10_FlattenLeavesRecords ==
    [][nflat' = nflat + 1 => parsed_records' = parsed_records]_vars

\* the rendering of a groups list as C11 states it
GroupsText(g) == IF g = <<>> THEN "" ELSE Join(g, ", ")

\* C11: the first repr_as_dict call on a ChartRecord that returns renders
\* groups as "" for no element, as the element itself for one, and as the
\* elements joined by ", " in their order for more than one.
C11_GroupsRendering ==
    [][(context = "TGS" /\ nflat = 0 /\ nflat' = 1 /\ flat_err' = "")
          => \E i \in DOMAIN parsed_records :
                /\ parsed_records[i].groups.kind = "list"
                /\ parsed_records'[i] # parsed_records[i]
                /\ flat_out'.groups = PyStr(GroupsText(parsed_records[i].groups.val))
                /\ parsed_records'[i].groups = flat_out'.groups]_vars

C11_Witness ==
    /\ nflat = 2
    /\ flat_err = ""
    /\ Len(prev_parsed) = 2
    /\ prev_parsed[1].groups = PyList(<<>>)
    /\ prev_parsed[2].groups = PyList(<<"A", "B">>)
    /\ parsed_records[1].groups = PyStr("")
    /\ parsed_records[2].groups = PyStr("A, B")

\* the lines of all blocks, one after the other
RECURSIVE BlockLines(_)
BlockLines(recs) ==
    IF recs = <<>> THEN <<>> ELSE Head(recs) \o BlockLines(Tail(recs))

\* the input without its three header lines and, for TGS, its three footer
\* lines, without the delimiter lines, every line trimmed of trailing spaces
KeptLines(ctx, raw) ==
    LET body == DropFirst(IF ctx = "TGS" THEN DropLast(raw, 3) ELSE raw, 3)
        NotDelimiter(line) == ~IsDelimiter(ctx, line)
        kept == SelectSeq(body, NotDelimiter)
    IN  [i \in DOMAIN kept |-> TrimTrailing(kept[i])]

\* C12: the splitter drops only the three header lines, the three footer
\* lines (TGS) and the delimiter lines; every other input line is, trimmed of
\* trailing spaces, in exactly one block, in input order.
C12_SplitterKeepsLines ==
    (pc \in {"records", "content", "done"})
        => BlockLines(records) = KeptLines(context, raw_input)

\* the line closes the current note: it is not the first content line and
\* the date or one of the five attribute patterns matches on it
ClosesNote(content, i) == i > 1 /\ \E a \in TGSAttributes : Rematched(a, content[i])

\* the texts of the notes of a content block as C13 states them: a note ends
\* right before every closing line and at the end of the block
RECURSIVE TGSNoteTexts(_, _, _)
TGSNoteTexts(content, i, tokens) ==
    IF i > Len(content) THEN <<Join(tokens, " ")>>
    ELSE LET m == ReSearch(TGS_PAT_TEXT, content[i])
             tok == IF m = Fail THEN <<>> ELSE <<Grp(content[i], m, 2, 2)>>
         IN  IF ClosesNote(content, i)
             THEN <<Join(tokens, " ")>> \o TGSNoteTexts(content, i + 1, tok)
             ELSE TGSNoteTexts(content, i + 1, tokens \o tok)

\* C13: in a ChartStatistics record the first content line closes no note,
\* every later line on which the date or an attribute pattern matches closes
\* the current note exactly once, no other line closes one, and the last note
\* is closed at the end: the record has 1 + (number of closing lines) notes,
\* in source order.
C13_NoteClosing ==
    (context = "TGS" /\ nflat = 0)
        => /\ \A i \in DOMAIN records_new :
                 LET notes == records_new[i].content.val
                     content == DropFirst(records[i], 2)
                 IN  /\ Len(notes) = 1 + Len(Openers(content, 2))
                     /\ [k \in DOMAIN notes |-> notes[k].text] = TGSNoteTexts(content, 1, <<>>)
           /\ pc = "content"
                 => Len(content_list)
                       = Cardinality({j \in 1..(line_i - 1) : ClosesNote(Content, j)})

C13_Witness ==
    /\ pc = "done"
    /\ context = "TGS"
    /\ nflat = 0
    /\ \E i \in DOMAIN parsed_records :
          LET content == DropFirst(records[i], 2)
          IN  /\ Len(content) = 2
              /\ Rematched("date", content[2])
              /\ Rematched("behandler", content[2])
              /\ Len(parsed_records[i].content.val) = 2

\* the notice-start lines among the first n lines of a content block
StartLines(content, n) ==
    LET IsStart(line) == GOFInfo(line) # Fail
    IN  SelectSeq(SubSeq(content, 1, n), IsStart)

StartsWithNotice(content) == content # <<>> /\ GOFInfo(content[1]) # Fail

\* C14: in a BillingError record whose first content line is a notice-start
\* line, a Notice is appended exactly when the next notice-start line is read
\* or the record ends: there is one Notice per notice-start line, in source
\* order, and an appended Notice is not changed by later lines.
C14_NoticeFinalization ==
    /\ [](context = "GOF"
            => /\ \A i \in DOMAIN records_new :
                     LET notes == records_new[i].content.val
                         starts == StartLines(DropFirst(records[i], 2), Len(records[i]) - 2)
                     IN  StartsWithNotice(DropFirst(records[i], 2))
                            => /\ Len(notes) = Len(starts)
                               /\ \A k \in DOMAIN notes :
                                     /\ notes[k].date = Strptime(GOFInfo(starts[k]).g1, 4)
                                     /\ notes[k].type = GOFInfo(starts[k]).g2
               /\ (pc = "content" /\ line_i > 1 /\ StartsWithNotice(Content))
                     => Len(content_list) = Len(StartLines(Content, line_i - 1)) - 1)
    /\ [][(context = "GOF" /\ pc = "content")
             => SubSeq(content_list', 1, Len(content_list)) = content_list]_vars

C14_Witness ==
    /\ pc = "done"
    /\ context = "GOF"
    /\ \E i \in DOMAIN parsed_records :
          LET content == DropFirst(records[i], 2)
              notes == records_new[i].content.val
          IN  /\ Len(content) = 2
              /\ Len(StartLines(content, 2)) = 2
              /\ Len(notes) = 2
              /\ notes[1].date = "2023-02-01"
              /\ notes[2].date = "2023-02-03"

\* the date the parser is about to convert has the digit shape of a date and
\* is no calendar date: the date of the content line to read or, when the
\* content is read, the birth date of the header
MalformedDateNext ==
    IF line_i <= Len(Content)
    THEN IF context = "GOF"
         THEN /\ GOFInfo(Content[line_i]) # Fail
              /\ Strptime(GOFInfo(Content[line_i]).g1, 4) = "ValueError"
         ELSE LET match_date == ReMatch(TGS_PAT_DATE, Content[line_i])
              IN  /\ match_date # Fail
                  /\ Strptime(Grp(Content[line_i], match_date, 1, 5), 2) = "ValueError"
    ELSE /\ ~IsUnbound(current_content)
         /\ Strptime(head.birth_date, 4) = "ValueError"

\* C15: a date with the digit shape of a date that is no calendar date, in
\* the birth date of the header or in the date of a notice or note, makes the
\* parse fail with FailedGrepMatch and with no other kind of exception.
C15_MalformedDateIsFailedGrepMatch ==
    [][(pc = "content" /\ MalformedDateNext) => (pc' = "failed" /\ err' = "FailedGrepMatch")]_vars

\* the block has fewer than two lines, or it is a BillingError block with a
\* matching header whose first content line is no notice-start line
StructuralMismatch(ctx, rec) ==
    \/ Len(rec) < 2
    \/ /\ ctx = "GOF"
       /\ Len(rec) >= 3
       /\ ~HeadFails(ctx, rec)
       /\ GOFInfo(rec[3]) = Fail

\* C16: a parse that stops at a block with fewer than two lines, or at a
\* BillingError block whose first content line is no notice-start line, has
\* raised FailedGrepMatch and no other kind of exception.
C16_StructuralMismatchIsFailedGrepMatch ==
    (pc = "failed" /\ context # "None" /\ rec_i \in DOMAIN records
                   /\ StructuralMismatch(context, records[rec_i]))
        => err = "FailedGrepMatch"

\* the position of the first character c of the line, 0 if there is none
FirstPos(line, c) ==
    IF \E i \in 1..Len(line) : Chr(line, i) = c
    THEN CHOOSE i \in 1..Len(line) :
            /\ Chr(line, i) = c
            /\ \A j \in 1..(i - 1) : Chr(line, j) # c
    ELSE 0

\* the groups of a header line 1 as C17 states them: no element when the line
\* has no parenthesized list, else the items of the list in their order
ListedGroups(line) ==
    IF FirstPos(line, "(") = 0 THEN <<>>
    ELSE Split(SubSeq(line, FirstPos(line, "(") + 1, FirstPos(line, ")") - 1), ", ")

\* C17: the groups of a parsed ChartStatistics record are the empty sequence
\* when header line 1 has no parenthesized list after the id, and else
\* exactly the comma-separated items of the list in their order.
C17_GroupsExtraction ==
    (context = "TGS" /\ nflat = 0)
        => \A i \in DOMAIN records_new :
              records_new[i].groups = PyList(ListedGroups(records[i][1]))
====
